---- MODULE Spec2Model ----
(***************************************************************************)
(* Model of the OCR pipeline, its two process-wide caches, the document    *)
(* classifier, the module-overview ECTS scan and the university matcher of *)
(* utils/ocr_ects.py, utils/document_classifier.py and                     *)
(* utils/university_matcher.py.                                            *)
(*                                                                         *)
(* A text is a sequence of tokens.  A token is a fragment of the recognized*)
(* string: a word, a number, a whitespace run " ", a newline "\n" or a     *)
(* form feed "\f".  Two adjacent word tokens stand for two words separated *)
(* by one blank.                                                           *)
(***************************************************************************)
EXTENDS Integers, Sequences, FiniteSets, TLC

VARIABLES ocrAvailable, fs, hashCache, textCache, calls, m

vars == <<ocrAvailable, fs, hashCache, textCache, calls, m>>

----------------------------------------------------------------------------
(* Bounds of the model *)

\* pages of the multi-page document doc.pdf
MaxPages == 2

\* lines of the module overview that is scanned
MaxLines == 2

\* documents handed to the university matcher
MaxDocs == 3

----------------------------------------------------------------------------
(* Program constants *)

\* CONFIG.DEFAULT_PSM
DEFAULT_PSM == 6

\* CONFIG.DPI
DPI == 200

\* a resolution other than the default one
OtherDpi == 300

\* CONFIG.MAX_WORKERS on a machine with two or three cores
MAX_WORKERS == 2

\* max_pages=None is written 0
NoLimit == 0

\* max_pages=1, the preview used by the classifier and the matcher
Preview == 1

Callers == {1, 2}

----------------------------------------------------------------------------
(* Texts *)

NL == "\n"
WS == " "
FF == "\f"

\* str.isspace of a token
IsSpace(t) == t \in {NL, WS, FF}

\* the characters str.splitlines breaks a string at
IsLineBreak(t) == t \in {NL, FF}

RECURSIVE LStrip(_)
LStrip(s) == IF s # <<>> /\ IsSpace(Head(s)) THEN LStrip(Tail(s)) ELSE s

RECURSIVE RStrip(_)
RStrip(s) ==
    IF s # <<>> /\ IsSpace(s[Len(s)]) THEN RStrip(SubSeq(s, 1, Len(s) - 1)) ELSE s

\* str.strip()
Strip(s) == RStrip(LStrip(s))

\* "\n".join(parts)
RECURSIVE Join(_)
Join(parts) ==
    IF parts = <<>> THEN <<>>
    ELSE IF Len(parts) = 1 THEN parts[1]
    ELSE parts[1] \o <<NL>> \o Join(Tail(parts))

\* str.splitlines(): the pieces between line breaks, no empty last piece
RECURSIVE SplitFrom(_, _)
SplitFrom(s, cur) ==
    IF s = <<>> THEN (IF cur = <<>> THEN <<>> ELSE <<cur>>)
    ELSE IF IsLineBreak(Head(s)) THEN <<cur>> \o SplitFrom(Tail(s), <<>>)
    ELSE SplitFrom(Tail(s), Append(cur, Head(s)))

SplitLines(s) == SplitFrom(s, <<>>)

RECURSIVE SumSeq(_)
SumSeq(s) == IF s = <<>> THEN 0 ELSE Head(s) + SumSeq(Tail(s))

Range(s) == {s[i] : i \in DOMAIN s}

----------------------------------------------------------------------------
(* The file system the callers hand paths of *)

PageTok == <<"pg1", "pg2", "pg3", "pg4">>

\* a readable file that renders to the given pages
GoodFile(pages, hash) ==
    [exists |-> TRUE, readable |-> TRUE, renders |-> TRUE, pages |-> pages,
     hash |-> hash]

\* doc.pdf: MaxPages pages, page i reads <<PageTok[i]>>
DocPages == [i \in 1..MaxPages |-> <<PageTok[i]>>]

BaseFs ==
    [p \in {"doc.pdf", "corrupt.pdf", "empty.pdf", "locked.pdf", "missing.pdf"} |->
        CASE p = "doc.pdf" -> GoodFile(DocPages, "h_doc")
          [] p = "corrupt.pdf" ->
                [exists |-> TRUE, readable |-> TRUE, renders |-> FALSE,
                 pages |-> <<>>, hash |-> "h_corrupt"]
          [] p = "empty.pdf" -> GoodFile(<<>>, "h_empty")
          [] p = "locked.pdf" ->
                [exists |-> TRUE, readable |-> FALSE, renders |-> TRUE,
                 pages |-> <<>>, hash |-> "h_locked"]
          [] OTHER ->
                [exists |-> FALSE, readable |-> FALSE, renders |-> FALSE,
                 pages |-> <<>>, hash |-> "h_none"]]

----------------------------------------------------------------------------
(* One call of a handler: its arguments, its position and what it returned *)

EmptyMap == [x \in {} |-> 0]

IdleCall ==
    [pc |-> "idle", handler |-> "none", path |-> "none", dpi |-> 0,
     max_pages |-> NoLimit, program |-> "none", doc_type |-> "none",
     module_map |-> <<>>, categories |-> <<>>,
     nimages |-> 0, doneSeq |-> <<>>, rendered |-> FALSE, hit |-> FALSE,
     elapsed |-> FALSE, exc |-> "none", text |-> <<>>,
     label |-> "none", scores |-> EmptyMap,
     sums |-> EmptyMap, matched |-> <<>>, unrecognized |-> <<>>,
     method |-> "none", lines |-> <<>>, li |-> 0]

Finished(c) == calls[c].pc \in {"done", "raised"}

----------------------------------------------------------------------------
(* document_classifier.py: the five scorers over the lower-cased text *)

\* str.lower() of a token
Lower(t) ==
    CASE t = "ECTS" -> "ects"
      [] t = "LP" -> "lp"
      [] t = "TOEFL" -> "toefl"
      [] t = "TestDaF" -> "testdaf"
      [] t = "Zeugnis" -> "zeugnis"
      [] t = "Transcript of Records" -> "transcript of records"
      [] t = "Analysis" -> "analysis"
      [] t = "I" -> "i"
      [] t = "Programmierung" -> "programmierung"
      [] t = "Technische" -> "technische"
      [] t = "Universität" -> "universität"
      [] t = "München" -> "münchen"
      [] t = "College" -> "college"
      [] t = "Straße" -> "straße"
      [] OTHER -> t

\* text.lower(); the empty list is appended to have the list computed once
LowerText(s) == [i \in DOMAIN s |-> Lower(s[i])] \o <<>>

\* the tokens that hold a decimal digit
DigitTokens == {"7", "8", "6", "7,5", "7.5", "120"}

\* the tokens str.isdigit accepts a character of: the above and superscripts
IsDigitTokens == DigitTokens \cup {"²"}

\* k in t for some k of TRANSCRIPT_KEYWORDS
InTranscriptKeywords(t) == t \in {"transcript of records", "statement of results"}

\* k in t for some k of ECTS_KEYWORDS
InEctsKeywords(t) == t \in {"ects", "credits"}

\* len(SEMESTER_RE.findall(t))
SemesterHits(t) == IF t \in {"wise", "sose"} THEN 1 ELSE 0

\* k in t for some k of GERMAN_CERT_KEYWORDS
InGermanCert(t) == t \in {"testdaf", "dsh-2"}

\* k in t for some k of ENGLISH_CERT_KEYWORDS
InEnglishCert(t) == t \in {"toefl", "ielts"}

\* k in t for some k of MODULE_OVERVIEW_KEYWORDS
InModuleOverviewKeywords(t) == t \in {"module overview", "curriculum"}

\* t.count("ects") + t.count("lp")
EctsLpCount(t) == IF t \in {"ects", "lp"} THEN 1 ELSE 0

\* sum(t.count(g) for g in GRADE_WORDS)
GradeCount(t) ==
    IF t \in {"note", "grade", "bewertung", "statement of results"} THEN 1 ELSE 0

\* k in t for some k of DEGREE_KEYWORDS
InDegreeKeywords(t) == t \in {"zeugnis", "urkunde", "diploma"}

\* k in t for some k of TRANSCRIPT_INDICATORS
InTranscriptIndicators(t) == t \in {"transcript of records", "ects", "credits"}

\* k in t for some k of VPD_KEYWORDS
InVpdKeywords(t) == t \in {"vpd", "uni-assist"}

\* VPD_PHRASES[0] in t, VPD_PHRASES[1] in t
InVpdPhrase1(t) == t = "bewertung"
InVpdPhrase2(t) == t = "ausländischer hochschulabschluss"

\* any(k in text_low for k in KEYWORDS)
\* hits[i] tells whether token i of the text contains a keyword
AnyToken(hits) == \E i \in DOMAIN hits : hits[i]

\* the sum over the text of a per-token count: the number of pairs of a
\* position and an occurrence there
CountTokens(counts) ==
    Cardinality(UNION {{<<i, n>> : n \in 1..counts[i]} : i \in DOMAIN counts})

\* the lines of text_low.splitlines() with a digit (LINE_WITH_DIGIT_RE): one
\* for every digit token that no digit token precedes on its line
NumericCount(text_low) ==
    Cardinality({i \in DOMAIN text_low :
        /\ text_low[i] \in DigitTokens
        /\ ~\E j \in 1..(i - 1) :
               /\ text_low[j] \in DigitTokens
               /\ \A k \in j..i : ~IsLineBreak(text_low[k])})

\* thresholds of the scorers
NumericLinesMin == 15
EctsCountMin == 4
GradeHitsMax == 2
ScoreFloor == 3

score_transcript(text_low) ==
    (IF AnyToken(
          [i \in DOMAIN text_low |-> InTranscriptKeywords(text_low[i])])
       THEN 5 ELSE 0)
    + (IF AnyToken(
          [i \in DOMAIN text_low |-> InEctsKeywords(text_low[i])])
       THEN 3 ELSE 0)
    + (IF CountTokens(
          [i \in DOMAIN text_low |-> SemesterHits(text_low[i])]) >= 1
       THEN 2 ELSE 0)
    + (IF NumericCount(text_low) >= NumericLinesMin
       THEN 2 ELSE 0)

score_language_cert(text_low, program) ==
    IF program = "bwl"
    THEN (IF AnyToken(
          [i \in DOMAIN text_low |-> InGermanCert(text_low[i])])
       THEN 5 ELSE 0)
    ELSE (IF AnyToken(
          [i \in DOMAIN text_low |-> InEnglishCert(text_low[i])])
       THEN 5 ELSE 0)

score_module_overview(text_low) ==
    (IF AnyToken(
          [i \in DOMAIN text_low |-> InModuleOverviewKeywords(text_low[i])])
       THEN 6 ELSE 0)
    + (IF CountTokens(
          [i \in DOMAIN text_low |-> EctsLpCount(text_low[i])]) >= EctsCountMin
       THEN 3 ELSE 0)
    + (IF CountTokens(
          [i \in DOMAIN text_low |-> GradeCount(text_low[i])]) <= GradeHitsMax
       THEN 1 ELSE 0)

score_degree_certificate(text_low) ==
    (IF AnyToken(
          [i \in DOMAIN text_low |-> InDegreeKeywords(text_low[i])])
       THEN 4 ELSE 0)
    + (IF CountTokens(
          [i \in DOMAIN text_low |-> GradeCount(text_low[i])]) >= 1
       THEN 1 ELSE 0)
    + (IF ~AnyToken(
          [i \in DOMAIN text_low |-> InTranscriptIndicators(text_low[i])])
       THEN 1 ELSE 0)

score_vpd(text_low) ==
    (IF AnyToken(
          [i \in DOMAIN text_low |-> InVpdKeywords(text_low[i])])
       THEN 7 ELSE 0)
    + (IF AnyToken(
          [i \in DOMAIN text_low |-> InVpdPhrase1(text_low[i])])
          /\ AnyToken(
          [i \in DOMAIN text_low |-> InVpdPhrase2(text_low[i])])
       THEN 3 ELSE 0)

\* the keys of the scores dict in insertion order
CategoryOrder ==
    <<"module_overview", "transcript", "language_certificate",
      "degree_certificate", "vpd">>

Scores(text_low, program) ==
    [cat \in Range(CategoryOrder) |->
        CASE cat = "module_overview" -> score_module_overview(text_low)
          [] cat = "transcript" -> score_transcript(text_low)
          [] cat = "language_certificate" -> score_language_cert(text_low, program)
          [] cat = "degree_certificate" -> score_degree_certificate(text_low)
          [] OTHER -> score_vpd(text_low)]

\* a faulty variant, for comparison: the last key with the greatest score
BestTypeLast(scores) ==
    LET best == CHOOSE i \in DOMAIN CategoryOrder :
                   /\ \A j \in DOMAIN CategoryOrder :
                         scores[CategoryOrder[j]] <= scores[CategoryOrder[i]]
                   /\ \A j \in DOMAIN CategoryOrder :
                         j > i => scores[CategoryOrder[j]] < scores[CategoryOrder[i]]
    IN  CategoryOrder[best]

\* max(scores, key=scores.get): the first key with the greatest score
BestType(scores) ==
    LET best == CHOOSE i \in DOMAIN CategoryOrder :
                   /\ \A j \in DOMAIN CategoryOrder :
                         scores[CategoryOrder[j]] <= scores[CategoryOrder[i]]
                   /\ \A j \in DOMAIN CategoryOrder :
                         j < i => scores[CategoryOrder[j]] < scores[CategoryOrder[i]]
    IN  CategoryOrder[best]

\* the label classify_document returns for a score map
LabelOf(scores) ==
    IF scores[BestType(scores)] < ScoreFloor THEN "other" ELSE BestType(scores)

\* return best_type, scores, or "other", scores below the floor
Labelled(scores) == <<LabelOf(scores), scores>>

\* classify_document from the recognized text on: <<label, scores>>
Classify(text, program) ==
    IF Strip(text) = <<>> THEN <<"other", EmptyMap>>
    ELSE CHOOSE res \in {Labelled(scores) :
                            scores \in {Scores(text_low, program) :
                                           text_low \in {LowerText(text)}}} : TRUE

----------------------------------------------------------------------------
(* ocr_ects.py: the line scan of _extract_ects_from_module_overview *)

\* needle in hay, both lists of lower-cased tokens
Contains(hay, needle) ==
    \E i \in 1..(Len(hay) + 1) :
        /\ i + Len(needle) - 1 <= Len(hay)
        /\ SubSeq(hay, i, i + Len(needle) - 1) = needle

\* any(ch.isdigit() for ch in low)
HasDigit(low) == \E i \in DOMAIN low : low[i] \in IsDigitTokens

\* a faulty variant, for comparison: the last entry of the map whose name is in the line
FindModuleLast(low, module_map) ==
    LET hits == {i \in DOMAIN module_map : Contains(low, LowerText(module_map[i].name))}
    IN  IF hits = {} THEN 0 ELSE CHOOSE i \in hits : \A j \in hits : j <= i

\* the loop over module_map.items(): the first entry whose lowered name is in
\* the line, 0 for none
FindModule(low, module_map) ==
    LET hits == {i \in DOMAIN module_map : Contains(low, LowerText(module_map[i].name))}
    IN  IF hits = {} THEN 0 ELSE CHOOSE i \in hits : \A j \in hits : i <= j

\* the units of MODULE_OVERVIEW_ECTS_RE
UnitTokens == {"ects", "lp", "cp", "credit points"}

\* group 1 of MODULE_OVERVIEW_ECTS_RE when the unit follows the token:
\* \d{1,2} takes the last two digits of a longer number
UnitGroup(t) == IF t = "120" THEN "20" ELSE t

\* re.findall(r'(\d{1,2}(?:[.,]\d)?)', t) of one token
BareGroups(t) ==
    IF t = "120" THEN <<"12", "0">>
    ELSE IF t \in DigitTokens THEN <<t>>
    ELSE <<>>

\* the token positions MODULE_OVERVIEW_ECTS_RE matches at: a number, optional
\* white space, a unit
UnitHits(low) ==
    {i \in DOMAIN low :
        /\ low[i] \in DigitTokens
        /\ \/ (i + 1 <= Len(low) /\ low[i + 1] \in UnitTokens)
           \/ (i + 2 <= Len(low) /\ low[i + 1] = WS /\ low[i + 2] \in UnitTokens)}

RECURSIVE BareNums(_)
BareNums(low) ==
    IF low = <<>> THEN <<>> ELSE BareGroups(Head(low)) \o BareNums(Tail(low))

\* val_str of a line, "" when the line holds no number
ValStr(low) ==
    IF UnitHits(low) # {}
    THEN UnitGroup(low[CHOOSE i \in UnitHits(low) : \A j \in UnitHits(low) : i <= j])
    ELSE IF BareNums(low) = <<>> THEN ""
    ELSE BareNums(low)[Len(BareNums(low))]

\* val_str.replace(",", ".")
ReplaceComma(v) == IF v = "7,5" THEN "7.5" ELSE v

\* float() of a decimal string, in tenths of a credit point
Float(v) ==
    CASE v = "0" -> 0
      [] v = "6" -> 60
      [] v = "7" -> 70
      [] v = "7.5" -> 75
      [] v = "8" -> 80
      [] v = "12" -> 120
      [] v = "20" -> 200
      [] OTHER -> -1

\* float() raises ValueError
FloatFails(v) == Float(v) < 0

\* one pass of the loop body for a stripped, non-blank line
LineOutcome(line, module_map) ==
    LET low == LowerText(line)
        k == FindModule(low, module_map)
    IN  IF ~HasDigit(low)
        THEN [kind |-> "skip", mod |-> <<>>, cat |-> "", val |-> 0]
        ELSE IF k = 0 \/ module_map[k].cat = "" \/ ValStr(low) = ""
                \/ FloatFails(ReplaceComma(ValStr(low)))
        THEN [kind |-> "unrecognized", mod |-> <<>>, cat |-> "", val |-> 0]
        ELSE [kind |-> "matched", mod |-> module_map[k].name,
              cat |-> module_map[k].cat, val |-> Float(ReplaceComma(ValStr(low)))]

\* {cat: 0.0 for cat in categories}
ZeroSums(categories) == [cat \in Range(categories) |-> 0]

\* sums[found_cat] += ects_val, the key added when it is new
AddTo(sums, cat, val) ==
    [k \in DOMAIN sums \cup {cat} |->
        IF k = cat THEN (IF cat \in DOMAIN sums THEN sums[cat] ELSE 0) + val
        ELSE sums[k]]

----------------------------------------------------------------------------
(* university_matcher.py *)

\* _norm of one token: lower-cased, diacritics stripped, sharp s written ss,
\* everything but a-z, 0-9 and blanks dropped; "" when nothing is left
NormWord(t) ==
    CASE Lower(t) = "universität" -> "universitat"
      [] Lower(t) = "münchen" -> "munchen"
      [] Lower(t) = "straße" -> "strasse"
      [] t \in {"-", "²"} -> ""
      [] IsSpace(t) -> ""
      [] OTHER -> Lower(t)

\* len() of a normalized word
WordLen(w) ==
    CASE w = "universitat" -> 11
      [] w = "technische" -> 10
      [] w \in {"munchen", "college", "strasse"} -> 7
      [] w = "campus" -> 6
      [] w = "tu" -> 2
      [] w = "" -> 0
      [] OTHER -> 3

\* _norm(s): the normalized words, single blanks between them
RECURSIVE Norm(_)
Norm(s) ==
    IF s = <<>> THEN <<>>
    ELSE IF NormWord(Head(s)) = "" THEN Norm(Tail(s))
    ELSE <<NormWord(Head(s))>> \o Norm(Tail(s))

\* len(cleaned)
NormLen(n) ==
    IF n = <<>> THEN 0 ELSE SumSeq([i \in DOMAIN n |-> WordLen(n[i])]) + Len(n) - 1

\* k in low for some k of UNI_KEYWORDS
HasUniKeyword(low) ==
    \E i \in DOMAIN low : low[i] \in {"universität", "university", "college", "hochschule"}

\* shortest candidate extract_university_candidates keeps
MinCandidateLen == 5

RECURSIVE CandidatesOf(_)
CandidatesOf(ls) ==
    IF ls = <<>> THEN <<>>
    ELSE IF HasUniKeyword(LowerText(Head(ls))) /\ NormLen(Norm(Head(ls))) >= MinCandidateLen
    THEN <<Norm(Head(ls))>> \o CandidatesOf(Tail(ls))
    ELSE CandidatesOf(Tail(ls))

extract_university_candidates(text) == CandidatesOf(SplitLines(text))

\* [_norm(w) for w in whitelist_set]
NormWhitelist(whitelist) == {Norm(w) : w \in whitelist}

\* the first candidate of the text that is in the normalized whitelist, <<>>
\* when there is none (a candidate is never empty)
FirstMatch(text, norm_whitelist) ==
    LET cands == extract_university_candidates(text)
        hits == {i \in DOMAIN cands : cands[i] \in norm_whitelist}
    IN  IF Strip(text) = <<>> \/ hits = {} THEN <<>>
        ELSE cands[CHOOSE i \in hits : \A j \in hits : i <= j]

----------------------------------------------------------------------------
(* ocr_ects.py: ocr_text_from_pdf and the handlers that call it *)

Min(a, b) == IF a <= b THEN a ELSE b

\* m with key k set to v, as a dict assignment does
Put(map, k, v) == [x \in DOMAIN map \cup {k} |-> IF x = k THEN v ELSE map[x]]

\* a faulty variant, for comparison: the page limit left out of the key
CacheKeyNoPages(file_hash, dpi, max_pages) == <<file_hash, dpi, DEFAULT_PSM, NoLimit>>

\* cache_key = (file_hash, dpi, CONFIG.DEFAULT_PSM, max_pages)
CacheKey(file_hash, dpi, max_pages) == <<file_hash, dpi, DEFAULT_PSM, max_pages>>

\* the cache key of a call that has fingerprinted its file
KeyOf(r) == CacheKey(fs[r.path].hash, r.dpi, r.max_pages)

\* a faulty variant, for comparison: the cache is never consulted
CacheHitNever(key) == FALSE

\* cache_key in _OCR_TEXT_CACHE
CacheHit(key) == key \in DOMAIN textCache

\* a faulty variant, for comparison: the recognized text is returned but not kept
StoreNothing(cache, key, text) == cache

\* _OCR_TEXT_CACHE[cache_key] = full_text
StoreText(cache, key, text) == Put(cache, key, text)

\* the zero result extract_ects_hybrid returns with a failure tag
Sentinel(r, tag) ==
    [r EXCEPT !.pc = "done", !.sums = ZeroSums(r.categories), !.matched = <<>>,
              !.unrecognized = <<>>, !.method = tag]

\* an exception leaves the handler: none of the three catches one of
\* ocr_text_from_pdf
Raised(r, e) == [r EXCEPT !.pc = "raised", !.exc = e]

\* ocr_text_from_pdf hands text back to the handler that called it, which runs
\* on to its return or to the line scan
Returned(r, text) ==
    CASE r.handler = "classify_document" ->
            LET res == Classify(text, r.program)
            IN  [r EXCEPT !.pc = "done", !.text = text,
                          !.label = res[1], !.scores = res[2]]
      [] r.handler = "extract_ects_hybrid" ->
            IF Strip(text) = <<>>
            THEN [Sentinel(r, "module_overview_empty") EXCEPT !.text = text]
            ELSE [r EXCEPT !.pc = "scan", !.text = text, !.lines = SplitLines(text),
                           !.li = 1, !.sums = ZeroSums(r.categories)]
      [] OTHER -> [r EXCEPT !.pc = "done", !.text = text]

\* a faulty variant, for comparison: the parts in the order the pool finished them
TextPartsByCompletion(doneSeq) == [k \in DOMAIN doneSeq |-> doneSeq[k].text]

\* list(executor.map(...)): the parts by page position
TextParts(doneSeq) ==
    [i \in DOMAIN doneSeq |->
        doneSeq[CHOOSE k \in DOMAIN doneSeq : doneSeq[k].page = i].text]

\* ensure_ocr_available, _compute_file_hash and the cache lookup of
\* ocr_text_from_pdf, for a call record r that holds the arguments
OcrEnter(c, r) ==
    IF ~ocrAvailable
    THEN /\ calls' = [calls EXCEPT ![c] = Raised(r, "RuntimeError")]
         /\ UNCHANGED <<hashCache, textCache>>
    ELSE IF r.path \notin DOMAIN hashCache /\ ~(fs[r.path].exists /\ fs[r.path].readable)
    THEN /\ calls' = [calls EXCEPT ![c] =
                        Raised(r, IF fs[r.path].exists THEN "PermissionError"
                                  ELSE "FileNotFoundError")]
         /\ UNCHANGED <<hashCache, textCache>>
    ELSE /\ hashCache' = Put(hashCache, r.path, fs[r.path].hash)
         /\ calls' = [calls EXCEPT ![c] =
                        IF CacheHit(KeyOf(r))
                        THEN Returned([r EXCEPT !.hit = TRUE], textCache[KeyOf(r)])
                        ELSE [r EXCEPT !.pc = "render"]]
         /\ UNCHANGED textCache

Fresh(c) == calls[c].pc \in {"idle", "done", "raised"}

\* a caller enters ocr_text_from_pdf(pdf_path, dpi, max_pages)
CallOcr(c, path, dpi, max_pages) ==
    /\ Fresh(c)
    /\ OcrEnter(c, [IdleCall EXCEPT !.handler = "ocr_text_from_pdf", !.path = path,
                                    !.dpi = dpi, !.max_pages = max_pages])
    /\ UNCHANGED <<ocrAvailable, fs, m>>

\* a caller enters classify_document(pdf_path, program)
CallClassify(c, path, program) ==
    /\ Fresh(c)
    /\ OcrEnter(c, [IdleCall EXCEPT !.handler = "classify_document", !.path = path,
                                    !.dpi = DPI, !.max_pages = Preview,
                                    !.program = program])
    /\ UNCHANGED <<ocrAvailable, fs, m>>

\* a caller enters extract_ects_hybrid(pdf_path, module_map, categories, doc_type)
CallHybrid(c, path, module_map, categories, doc_type) ==
    /\ Fresh(c)
    /\ LET r == [IdleCall EXCEPT !.handler = "extract_ects_hybrid", !.path = path,
                                 !.dpi = DPI, !.max_pages = NoLimit,
                                 !.module_map = module_map,
                                 !.categories = categories, !.doc_type = doc_type]
       IN  IF ~fs[path].exists
           THEN /\ calls' = [calls EXCEPT ![c] = Sentinel(r, "FAILED_NOFILE")]
                /\ UNCHANGED <<hashCache, textCache>>
           ELSE IF doc_type = "module_overview"
           THEN OcrEnter(c, r)
           ELSE /\ calls' = [calls EXCEPT ![c] = [r EXCEPT !.pc = "engine"]]
                /\ UNCHANGED <<hashCache, textCache>>
    /\ UNCHANGED <<ocrAvailable, fs, m>>

\* len(images) of convert_from_path(..., last_page=max_pages)
ImageCount(path, max_pages) ==
    IF max_pages = NoLimit THEN Len(fs[path].pages)
    ELSE Min(max_pages, Len(fs[path].pages))

\* convert_from_path and the creation of the worker pool
Render(c) ==
    /\ calls[c].pc = "render"
    /\ LET r == [calls[c] EXCEPT !.rendered = TRUE]
           n == ImageCount(r.path, r.max_pages)
       IN  calls' = [calls EXCEPT ![c] =
                IF ~fs[r.path].renders THEN Returned(r, <<>>)
                ELSE IF n = 0 THEN Raised(r, "ValueError")
                ELSE [r EXCEPT !.pc = "ocr", !.nimages = n, !.doneSeq = <<>>]]
    /\ UNCHANGED <<ocrAvailable, fs, hashCache, textCache, m>>

PagesDone(r) == {r.doneSeq[k].page : k \in DOMAIN r.doneSeq}

\* page i is with one of the min(len(images), MAX_WORKERS) workers
Running(r, i) ==
    /\ i \in 1..r.nimages
    /\ i \notin PagesDone(r)
    /\ Cardinality({j \in 1..(i - 1) : j \notin PagesDone(r)}) < Min(r.nimages, MAX_WORKERS)

\* _ocr_single_image returns the text of page i
PageRecognized(c, i) ==
    /\ calls[c].pc = "ocr"
    /\ Running(calls[c], i)
    /\ calls' = [calls EXCEPT ![c].doneSeq =
                    Append(@, [page |-> i, text |-> fs[calls[c].path].pages[i]])]
    /\ UNCHANGED <<ocrAvailable, fs, hashCache, textCache, m>>

\* pytesseract times out or fails on page i: _ocr_single_image returns ""
PageFailed(c, i) ==
    /\ calls[c].pc = "ocr"
    /\ Running(calls[c], i)
    /\ calls' = [calls EXCEPT ![c].doneSeq = Append(@, [page |-> i, text |-> <<>>])]
    /\ UNCHANGED <<ocrAvailable, fs, hashCache, textCache, m>>

\* the deadline of executor.map passes while a page is not finished: the
\* results iterator raises TimeoutError, which nothing catches
PoolTimeout(c) ==
    /\ calls[c].pc = "ocr"
    /\ Len(calls[c].doneSeq) < calls[c].nimages
    /\ calls' = [calls EXCEPT ![c] = Raised([@ EXCEPT !.elapsed = TRUE], "TimeoutError")]
    /\ UNCHANGED <<ocrAvailable, fs, hashCache, textCache, m>>

\* every page is finished: the parts are joined, stored and returned
Collect(c) ==
    /\ calls[c].pc = "ocr"
    /\ Len(calls[c].doneSeq) = calls[c].nimages
    /\ \E full_text \in {Join(TextParts(calls[c].doneSeq))} :
           /\ textCache' = StoreText(textCache, KeyOf(calls[c]), full_text)
           /\ calls' = [calls EXCEPT ![c] = Returned(@, full_text)]
    /\ UNCHANGED <<ocrAvailable, fs, hashCache, m>>

\* CONFIG.TIMEOUT_SECONDS pass since the handler was entered while it renders
\* or recognizes
BudgetElapses(c) ==
    /\ calls[c].pc \in {"render", "ocr"}
    /\ ~calls[c].elapsed
    /\ calls' = [calls EXCEPT ![c].elapsed = TRUE]
    /\ UNCHANGED <<ocrAvailable, fs, hashCache, textCache, m>>

\* one pass of the loop over text.splitlines()
ScanLine(c) ==
    /\ calls[c].pc = "scan"
    /\ calls[c].li <= Len(calls[c].lines)
    /\ LET r == calls[c]
           line == Strip(r.lines[r.li])
           o == LineOutcome(line, r.module_map)
       IN  calls' = [calls EXCEPT ![c] =
                IF line = <<>> \/ o.kind = "skip" THEN [r EXCEPT !.li = @ + 1]
                ELSE IF o.kind = "unrecognized"
                THEN [r EXCEPT !.li = @ + 1, !.unrecognized = Append(@, line)]
                ELSE [r EXCEPT !.li = @ + 1,
                               !.sums = AddTo(@, o.cat, o.val),
                               !.matched = Append(@, [mod |-> o.mod, cat |-> o.cat,
                                                      val |-> o.val, line |-> line])]]
    /\ UNCHANGED <<ocrAvailable, fs, hashCache, textCache, m>>

\* the loop is over: return sums, matched_modules, unrecognized_lines
ScanReturn(c) ==
    /\ calls[c].pc = "scan"
    /\ calls[c].li > Len(calls[c].lines)
    /\ calls' = [calls EXCEPT ![c] = [@ EXCEPT !.pc = "done",
                                               !.method = "module_overview_simple"]]
    /\ UNCHANGED <<ocrAvailable, fs, hashCache, textCache, m>>

\* extract_ects_ocr returns within the budget
EngineReturns(c) ==
    /\ calls[c].pc = "engine"
    /\ calls' = [calls EXCEPT ![c] = Sentinel(@, "hocr")]
    /\ UNCHANGED <<ocrAvailable, fs, hashCache, textCache, m>>

\* extract_ects_ocr raises: except Exception
EngineRaises(c) ==
    /\ calls[c].pc = "engine"
    /\ calls' = [calls EXCEPT ![c] = Sentinel(@, "FAILED_ERROR")]
    /\ UNCHANGED <<ocrAvailable, fs, hashCache, textCache, m>>

\* func_timeout raises FunctionTimedOut after CONFIG.TIMEOUT_SECONDS
EngineTimesOut(c) ==
    /\ calls[c].pc = "engine"
    /\ calls' = [calls EXCEPT ![c] = Sentinel([@ EXCEPT !.elapsed = TRUE], "FAILED_TIMEOUT")]
    /\ UNCHANGED <<ocrAvailable, fs, hashCache, textCache, m>>

----------------------------------------------------------------------------
(* Concurrent callers of ocr_text_from_pdf *)

NoMatcher == [pc |-> "off"]

ConcPaths == {"doc.pdf", "corrupt.pdf"}

PageLimits == {NoLimit, Preview}

InitConc ==
    /\ ocrAvailable = TRUE
    /\ fs = BaseFs
    /\ hashCache = EmptyMap
    /\ textCache = EmptyMap
    /\ calls = [c \in Callers |-> IdleCall]
    /\ m = NoMatcher

NextConc ==
    \E c \in Callers :
        \/ \E path \in ConcPaths, max_pages \in PageLimits :
               CallOcr(c, path, DPI, max_pages)
        \/ Render(c)
        \/ \E i \in 1..MaxPages : PageRecognized(c, i)
        \/ \E i \in 1..MaxPages : PageFailed(c, i)
        \/ PoolTimeout(c)
        \/ Collect(c)

SpecConc == InitConc /\ [][NextConc]_vars

----------------------------------------------------------------------------
(* Claims on concurrent callers of ocr_text_from_pdf *)

\* the number of newline-joined parts of a text whose parts hold no line break
PartCount(t) == Cardinality({x \in DOMAIN t : t[x] = NL}) + 1

\* the texts a recognition of the first n pages of a file can join to when the
\* parts stand in page order: every part the page's text or ""
InOrderTexts(path, n) ==
    {Join([k \in 1..n |-> IF k \in good THEN fs[path].pages[k] ELSE <<>>]) :
        good \in SUBSET (1..n)}

\* C2: a page that times out or fails contributes "" and costs the call that
\* one page only: a call of ocr_text_from_pdf that rendered its pages never
\* ends in an exception, and it returns the texts of the other pages
C2_PageFailureNeverAborts ==
    \A c \in Callers :
        calls[c].handler = "ocr_text_from_pdf" /\ calls[c].rendered
        /\ fs[calls[c].path].renders /\ Len(fs[calls[c].path].pages) > 0
        => /\ calls[c].pc # "raised"
           /\ calls[c].pc = "done" =>
                 calls[c].text \in InOrderTexts(calls[c].path, calls[c].nimages)

\* C5: the text ocr_text_from_pdf returns is the newline-joined texts of the
\* pages in page order, whatever the order in which the pool finished them
C5_PageOrder ==
    \A c \in Callers :
        calls[c].pc = "done" /\ calls[c].handler = "ocr_text_from_pdf"
        /\ fs[calls[c].path].renders
        => calls[c].text \in
              InOrderTexts(calls[c].path, ImageCount(calls[c].path, calls[c].max_pages))

\* C5 witness: a call returned both pages in page order although the pool
\* finished page 2 before page 1
C5_Witness ==
    \E c \in Callers :
        /\ calls[c].pc = "done" /\ ~calls[c].hit
        /\ Len(calls[c].doneSeq) >= 2
        /\ calls[c].doneSeq[1].page = 2
        /\ calls[c].text = <<"pg1", NL, "pg2">>

\* C6: a preview call (max_pages=1) and a full call (max_pages=None) on the same
\* file and dpi never share a cache entry: an entry under a full key holds a
\* part for every page, an entry under a preview key holds one part, and a
\* call served from the cache returns the entry of its own page limit
C6_PreviewAndFullApart ==
    /\ \A k \in DOMAIN textCache :
          k[1] = "h_doc" =>
             PartCount(textCache[k]) = (IF k[4] = NoLimit THEN MaxPages ELSE 1)
    /\ \A c \in Callers :
          calls[c].pc = "done" /\ calls[c].hit /\ calls[c].path = "doc.pdf"
          => PartCount(calls[c].text) =
                (IF calls[c].max_pages = NoLimit THEN MaxPages ELSE 1)

\* C6 witness: the cache holds a preview and a full entry of doc.pdf, and a
\* full call and a preview call were both served from the cache
C6_Witness ==
    /\ <<"h_doc", DPI, DEFAULT_PSM, NoLimit>> \in DOMAIN textCache
    /\ <<"h_doc", DPI, DEFAULT_PSM, Preview>> \in DOMAIN textCache
    /\ \E c, d \in Callers :
          /\ calls[c].pc = "done" /\ calls[c].hit /\ calls[c].max_pages = NoLimit
          /\ calls[d].pc = "done" /\ calls[d].hit /\ calls[d].max_pages = Preview

\* C10 as claimed: a value the text cache holds for a key is never changed
C10_WriteOnce ==
    [][\A k \in DOMAIN textCache : k \in DOMAIN textCache' /\ textCache'[k] = textCache[k]]_vars

\* C10 amended: a call goes on to render only when its key is not in the cache,
\* and the cache changes only where a call that missed stores the text it
\* returns: a call that finds an entry never changes it
C10_OnlyMissedCallsStore ==
    [][/\ \A c \in Callers :
             calls[c].pc # "render" /\ calls'[c].pc = "render"
             => KeyOf(calls'[c]) \notin DOMAIN textCache
       /\ \A k \in DOMAIN textCache' :
             (k \notin DOMAIN textCache \/ textCache'[k] # textCache[k])
             => \E c \in Callers :
                   /\ calls[c].pc = "ocr" /\ ~calls[c].hit
                   /\ calls'[c].pc = "done"
                   /\ k = <<fs[calls[c].path].hash, calls[c].dpi, DEFAULT_PSM,
                            calls[c].max_pages>>
                   /\ textCache'[k] = calls'[c].text]_vars

\* C10 witness: two callers missed the cache for the same key and recognized
\* different texts; both have stored and returned, the cache holds the text of
\* one of them
C10_Witness ==
    \E c, d \in Callers :
        /\ calls[c].pc = "done" /\ ~calls[c].hit /\ calls[c].nimages > 0
        /\ calls[d].pc = "done" /\ ~calls[d].hit /\ calls[d].nimages > 0
        /\ KeyOf(calls[d]) = KeyOf(calls[c])
        /\ calls[c].text # calls[d].text
        /\ textCache[KeyOf(calls[c])] = calls[d].text

----------------------------------------------------------------------------
(* Callers one after the other, of the three handlers *)

SeqPaths == DOMAIN BaseFs

Dpis == {DPI, OtherDpi}

Programs == {"bwl", "msc"}

DocTypes == {"module_overview", "transcript"}

\* the module map and the categories of the extraction calls
MapA ==
    << [name |-> <<"Analysis", "I">>, cat |-> "math"],
       [name |-> <<"Programmierung">>, cat |-> "cs"] >>

CategoriesA == <<"math", "cs">>

\* caller c enters after every caller before it has left
Turn(c) == calls[c].pc = "idle" /\ \A d \in Callers : d < c => Finished(d)

InitSeq ==
    /\ ocrAvailable \in BOOLEAN
    /\ fs = BaseFs
    /\ hashCache = EmptyMap
    /\ textCache = EmptyMap
    /\ calls = [c \in Callers |-> IdleCall]
    /\ m = NoMatcher

NextSeq ==
    \E c \in Callers :
        \/ \E path \in SeqPaths, dpi \in Dpis, max_pages \in PageLimits :
               Turn(c) /\ CallOcr(c, path, dpi, max_pages)
        \/ \E path \in SeqPaths, program \in Programs :
               Turn(c) /\ CallClassify(c, path, program)
        \/ \E path \in SeqPaths, doc_type \in DocTypes :
               Turn(c) /\ CallHybrid(c, path, MapA, CategoriesA, doc_type)
        \/ Render(c)
        \/ \E i \in 1..MaxPages : PageRecognized(c, i)
        \/ \E i \in 1..MaxPages : PageFailed(c, i)
        \/ PoolTimeout(c)
        \/ Collect(c)
        \/ BudgetElapses(c)
        \/ ScanLine(c)
        \/ ScanReturn(c)
        \/ EngineReturns(c)
        \/ EngineRaises(c)
        \/ EngineTimesOut(c)

SpecSeq == InitSeq /\ [][NextSeq]_vars

\* caller 2 repeated the call of caller 1: ocr_text_from_pdf with the same
\* file, dpi and max_pages
SameOcrCall ==
    /\ calls[1].handler = "ocr_text_from_pdf" /\ calls[2].handler = "ocr_text_from_pdf"
    /\ calls[1].path = calls[2].path
    /\ calls[1].dpi = calls[2].dpi
    /\ calls[1].max_pages = calls[2].max_pages

\* C1 as claimed: whatever the first call returned, the second call with the
\* same file and parameters returns the same text and invokes neither the
\* renderer nor the recognizer
C1_SecondCallCached ==
    calls[1].pc = "done" /\ Finished(2) /\ SameOcrCall
    => /\ calls[2].pc = "done"
       /\ calls[2].text = calls[1].text
       /\ ~calls[2].rendered
       /\ calls[2].doneSeq = <<>>

\* C1 amended: when the first call rendered the file and returned the joined
\* text of its pages, the second call with the same file and parameters
\* returns the same text from the cache and invokes neither the renderer nor
\* the recognizer
C1_SecondCallCachedAfterRecognition ==
    calls[1].pc = "done" /\ calls[1].nimages > 0 /\ Finished(2) /\ SameOcrCall
    => /\ calls[2].pc = "done"
       /\ calls[2].hit
       /\ calls[2].text = calls[1].text
       /\ ~calls[2].rendered
       /\ calls[2].doneSeq = <<>>

\* C1 witness: the first call recognized doc.pdf with a failed page, the second
\* call with the same parameters has returned
C1_Witness ==
    /\ calls[1].pc = "done" /\ calls[1].nimages = MaxPages /\ SameOcrCall
    /\ \E k \in DOMAIN calls[1].doneSeq : calls[1].doneSeq[k].text = <<>>
    /\ calls[2].pc = "done" /\ calls[2].hit

\* C3: ocr_text_from_pdf, classify_document and extract_ects_hybrid raise only
\* when the OCR capability is missing; every other failure of an input gives
\* a degraded result
C3_OnlyCapabilityRaises ==
    \A c \in Callers :
        calls[c].pc = "raised" => calls[c].exc = "RuntimeError" /\ ~ocrAvailable

\* C4: whenever recognition invoked from extract_ects_hybrid exceeds the time
\* budget, for every doc_type, the call returns the failure sentinel: zero
\* sums, empty lists, method FAILED_TIMEOUT
C4_OverBudgetGivesSentinel ==
    \A c \in Callers :
        calls[c].handler = "extract_ects_hybrid" /\ calls[c].elapsed
        /\ calls[c].pc = "done"
        => /\ calls[c].method = "FAILED_TIMEOUT"
           /\ calls[c].sums = ZeroSums(calls[c].categories)
           /\ calls[c].matched = <<>>
           /\ calls[c].unrecognized = <<>>

----------------------------------------------------------------------------
(* classify_document on one scanned page *)

RECURSIVE Repeat(_, _)
Repeat(line, n) == IF n = 0 THEN <<>> ELSE <<line>> \o Repeat(line, n - 1)

\* the first-page texts classified: every fragment on a line of its own, as
\* often as given
ClassifyTexts ==
    {Join(Repeat(<<"Transcript of Records">>, tr) \o Repeat(<<"ECTS">>, ec)
          \o Repeat(<<"wise">>, se) \o Repeat(<<"7">>, nu)
          \o Repeat(<<"module overview">>, mo) \o Repeat(<<"note">>, gr)
          \o Repeat(<<"bewertung">>, ph)
          \o Repeat(<<"ausländischer hochschulabschluss">>, ph)
          \o Repeat(<<"Zeugnis">>, ze) \o Repeat(<<"vpd">>, vp)
          \o Repeat(<<cert>>, 1)) :
        tr \in {0, 1}, ec \in {0, 1, EctsCountMin}, se \in {0, 1},
        nu \in {0, NumericLinesMin}, mo \in {0, 1}, gr \in {0, GradeHitsMax + 1},
        ph \in {0, 1}, ze \in {0, 1}, vp \in {0, 1},
        cert \in {"hello", "TOEFL", "TestDaF"}}
    \cup {<<FF>>, <<WS, NL>>}

InitClassify ==
    /\ ocrAvailable = TRUE
    /\ \E text \in ClassifyTexts :
          fs = [p \in {"scan.pdf"} |-> GoodFile(<<text>>, "h_scan")]
    /\ hashCache = EmptyMap
    /\ textCache = EmptyMap
    /\ calls = [c \in Callers |-> IdleCall]
    /\ m = NoMatcher

NextClassify ==
    \/ \E program \in Programs : Turn(1) /\ CallClassify(1, "scan.pdf", program)
    \/ Render(1)
    \/ PageRecognized(1, 1)
    \/ PageFailed(1, 1)
    \/ PoolTimeout(1)
    \/ Collect(1)

SpecClassify == InitClassify /\ [][NextClassify]_vars

\* the greatest score of a score map of the five categories
MaxScore(scores) ==
    CHOOSE v \in {scores[k] : k \in DOMAIN scores} : \A k \in DOMAIN scores : scores[k] <= v

\* the label and the score map agree: "other" below the floor, else the first
\* category in the order of CategoryOrder that has the greatest score
LabelRule(label, scores) ==
    /\ DOMAIN scores =
          {"module_overview", "transcript", "language_certificate",
           "degree_certificate", "vpd"}
    /\ IF MaxScore(scores) < 3 THEN label = "other"
       ELSE \E i \in DOMAIN CategoryOrder :
               /\ label = CategoryOrder[i]
               /\ scores[label] = MaxScore(scores)
               /\ \A j \in 1..(i - 1) : scores[CategoryOrder[j]] < MaxScore(scores)

\* C7 as claimed: for every non-empty recognized text classify_document
\* returns the score map of the five categories and the label of the rule
C7_LabelOfNonEmptyText ==
    \A c \in Callers :
        calls[c].pc = "done" /\ calls[c].handler = "classify_document"
        /\ calls[c].text # <<>>
        => LabelRule(calls[c].label, calls[c].scores)

\* C7 amended: for every recognized text that is not empty and not white space
\* only, classify_document returns the score map of the five categories and
\* the label of the rule
C7_LabelOfNonBlankText ==
    \A c \in Callers :
        calls[c].pc = "done" /\ calls[c].handler = "classify_document"
        /\ (\E i \in DOMAIN calls[c].text : calls[c].text[i] \notin {NL, WS, FF})
        => LabelRule(calls[c].label, calls[c].scores)

\* C7 witness: transcript and language_certificate tie at the greatest score,
\* which is above the floor, and the label is transcript
C7_Witness ==
    \E c \in Callers :
        /\ calls[c].pc = "done" /\ calls[c].handler = "classify_document"
        /\ DOMAIN calls[c].scores # {}
        /\ calls[c].scores["transcript"] = 5
        /\ calls[c].scores["language_certificate"] = 5
        /\ MaxScore(calls[c].scores) = 5
        /\ calls[c].label = "transcript"

----------------------------------------------------------------------------
(* extract_ects_hybrid on a module overview of one page *)

\* the lines a module overview is made of
OverviewLines ==
    { <<"Analysis", "I", "8", "ECTS">>,
      <<"Programmierung", "6", "LP">>,
      <<"Seminar", "7,5", "ECTS">>,
      <<"Analysis", "I">>,
      <<"Programmierung", "²">>,
      <<WS>>,
      <<"Analysis", "I", "7.5">>,
      <<"Programmierung", "120", "ECTS">>,
      <<"programmierung", "7,5", "6">>,
      <<WS, "Programmierung", "6", WS, "LP", WS>> }

\* the texts of at most n lines
RECURSIVE OverviewTexts(_)
OverviewTexts(n) ==
    IF n = 0 THEN {<<>>}
    ELSE OverviewTexts(n - 1)
         \cup {IF t = <<>> THEN l ELSE t \o <<NL>> \o l :
                  t \in OverviewTexts(n - 1) \ {<<>>}, l \in OverviewLines}
         \cup OverviewLines

\* Analysis is in every line Analysis I is in, and comes first
MapB ==
    << [name |-> <<"Analysis">>, cat |-> "math"],
       [name |-> <<"Analysis", "I">>, cat |-> "cs"] >>

\* a category that is not among the categories asked for
MapC == << [name |-> <<"Programmierung">>, cat |-> "elective"] >>

ModuleMaps == {MapA, MapB, MapC}

InitScan ==
    /\ ocrAvailable = TRUE
    /\ \E text \in OverviewTexts(MaxLines) :
          fs = [p \in {"overview.pdf"} |-> GoodFile(<<text>>, "h_overview")]
    /\ hashCache = EmptyMap
    /\ textCache = EmptyMap
    /\ calls = [c \in Callers |-> IdleCall]
    /\ m = NoMatcher

NextScan ==
    \/ \E module_map \in ModuleMaps :
          Turn(1) /\ CallHybrid(1, "overview.pdf", module_map, CategoriesA,
                                "module_overview")
    \/ Render(1)
    \/ PageRecognized(1, 1)
    \/ PageFailed(1, 1)
    \/ PoolTimeout(1)
    \/ Collect(1)
    \/ ScanLine(1)
    \/ ScanReturn(1)

SpecScan == InitScan /\ [][NextScan]_vars

\* the value of key k of a sum map, 0 when the map has no such key
SumAt(sums, k) == IF k \in DOMAIN sums THEN sums[k] ELSE 0

\* what one pass of the scan may do to the two lists and the sums, for the
\* stripped line it read
LineRule(r, r2, line) ==
    LET low == LowerText(line)
        named == {k \in DOMAIN r.module_map :
                     Contains(low, LowerText(r.module_map[k].name))}
        first == CHOOSE k \in named : \A j \in named : k <= j
    IN  IF ~\E i \in DOMAIN low : low[i] \in IsDigitTokens
        THEN /\ r2.matched = r.matched
             /\ r2.unrecognized = r.unrecognized
             /\ r2.sums = r.sums
        ELSE IF named = {} \/ ValStr(low) = ""
        THEN /\ r2.matched = r.matched
             /\ r2.unrecognized = Append(r.unrecognized, line)
             /\ r2.sums = r.sums
        ELSE /\ r2.unrecognized = r.unrecognized
             /\ Len(r2.matched) = Len(r.matched) + 1
             /\ SubSeq(r2.matched, 1, Len(r.matched)) = r.matched
             /\ r2.matched[Len(r2.matched)].cat = r.module_map[first].cat
             /\ \A k \in DOMAIN r2.sums \cup DOMAIN r.sums :
                   SumAt(r2.sums, k) =
                      SumAt(r.sums, k)
                      + (IF k = r.module_map[first].cat
                         THEN Float(ReplaceComma(ValStr(low))) ELSE 0)

----------------------------------------------------------------------------
(* is_whitelisted_university_in_pdf *)

MatchPaths == <<"u1.pdf", "u2.pdf", "u3.pdf", "u4.pdf", "u5.pdf">>

\* what ocr_func(pdf, max_pages=1) returns for a document
MatchTexts ==
    { <<>>,
      <<FF>>,
      <<"Technische", "Universität", "München">>,
      <<"pg1", NL, "College", "-", "Campus">>,
      <<"universitat", "munchen">>,
      <<"Campus", NL, "Technische", "Universität", "München", NL, "College">> }

Whitelists ==
    { {},
      {<<"technische", "universitat", "munchen">>},
      {<<"College">>, <<"Technische", "Universität", "München">>},
      {<<"college", "campus">>} }

\* a faulty variant, for comparison: the loop goes on after a match
AfterTextNoShortCircuit(mm, txt) ==
    IF FirstMatch(txt, mm.norm_whitelist) # <<>>
    THEN [mm EXCEPT !.i = @ + 1, !.found = TRUE,
                    !.cand = FirstMatch(txt, mm.norm_whitelist),
                    !.called = Append(@, <<mm.pdf_paths[mm.i], Preview>>)]
    ELSE [mm EXCEPT !.i = @ + 1,
                    !.called = Append(@, <<mm.pdf_paths[mm.i], Preview>>)]

\* the body of the loop over pdf_paths once ocr_func has returned txt
AfterText(mm, txt) ==
    IF FirstMatch(txt, mm.norm_whitelist) # <<>>
    THEN [mm EXCEPT !.pc = "done", !.found = TRUE,
                    !.cand = FirstMatch(txt, mm.norm_whitelist),
                    !.called = Append(@, <<mm.pdf_paths[mm.i], Preview>>)]
    ELSE [mm EXCEPT !.i = @ + 1,
                    !.called = Append(@, <<mm.pdf_paths[mm.i], Preview>>)]

\* norm_whitelist = [_norm(w) for w in whitelist_set]
MatcherEnter ==
    /\ m.pc = "start"
    /\ m' = [m EXCEPT !.pc = "loop", !.i = 1,
                      !.norm_whitelist = NormWhitelist(m.whitelist_set)]
    /\ UNCHANGED <<ocrAvailable, fs, hashCache, textCache, calls>>

\* one pass of the loop: the next document is recognized and searched
MatcherStep ==
    /\ m.pc = "loop"
    /\ m.i <= Len(m.pdf_paths)
    /\ m' = AfterText(m, m.ocr_func[m.pdf_paths[m.i]])
    /\ UNCHANGED <<ocrAvailable, fs, hashCache, textCache, calls>>

\* the loop is over: return False, None
MatcherEnd ==
    /\ m.pc = "loop"
    /\ m.i > Len(m.pdf_paths)
    /\ m' = [m EXCEPT !.pc = "done", !.found = FALSE, !.cand = <<>>]
    /\ UNCHANGED <<ocrAvailable, fs, hashCache, textCache, calls>>

\* the result is found, cand; the empty candidate stands for None
InitMatch ==
    /\ ocrAvailable = TRUE
    /\ fs = BaseFs
    /\ hashCache = EmptyMap
    /\ textCache = EmptyMap
    /\ calls = [c \in Callers |-> IdleCall]
    /\ \E n \in 0..MaxDocs :
          \E ocr_func \in [{MatchPaths[j] : j \in 1..n} -> MatchTexts],
             whitelist_set \in Whitelists :
             m = [pc |-> "start", pdf_paths |-> SubSeq(MatchPaths, 1, n),
                  whitelist_set |-> whitelist_set, ocr_func |-> ocr_func,
                  norm_whitelist |-> {}, i |-> 0, called |-> <<>>,
                  found |-> FALSE, cand |-> <<>>]

NextMatch == MatcherEnter \/ MatcherStep \/ MatcherEnd

SpecMatch == InitMatch /\ [][NextMatch]_vars

\* document j of the call yields a candidate equal to a normalized entry of
\* the whitelist
Yields(j) ==
    \E k \in DOMAIN extract_university_candidates(m.ocr_func[m.pdf_paths[j]]) :
        extract_university_candidates(m.ocr_func[m.pdf_paths[j]])[k]
            \in {Norm(w) : w \in m.whitelist_set}

\* C8: the paths are recognized in list order with max_pages=1 only; the call
\* returns (True, candidate) at the first document that yields a whitelisted
\* candidate and recognizes no path after it; it returns (False, None)
\* exactly when no document yields one
C8_FirstMatchShortCircuit ==
    /\ m.pc \in {"loop", "done"} =>
          /\ Len(m.called) <= Len(m.pdf_paths)
          /\ \A j \in DOMAIN m.called : m.called[j] = <<m.pdf_paths[j], 1>>
    /\ m.pc = "done" =>
          IF \E j \in DOMAIN m.pdf_paths : Yields(j)
          THEN LET first == CHOOSE j \in DOMAIN m.pdf_paths :
                               Yields(j) /\ \A k \in 1..(j - 1) : ~Yields(k)
               IN  /\ m.found
                   /\ m.cand \in Range(extract_university_candidates(
                                           m.ocr_func[m.pdf_paths[first]]))
                   /\ m.cand \in {Norm(w) : w \in m.whitelist_set}
                   /\ Len(m.called) = first
          ELSE /\ ~m.found
               /\ m.cand = <<>>
               /\ Len(m.called) = Len(m.pdf_paths)

\* C8 witness: of three documents the second was the first with a whitelisted
\* candidate; the call returned it after two recognitions
C8_Witness ==
    /\ m.pc = "done" /\ m.found
    /\ Len(m.pdf_paths) = 3 /\ Len(m.called) = 2
    /\ m.cand = <<"technische", "universitat", "munchen">>

====
